---- MODULE Spec2Model ----
(***************************************************************************)
(* Model of onadata/libs/utils/google_sheets.py: the export of survey data *)
(* to a Google spreadsheet by SheetsExportBuilder, with the remote         *)
(* spreadsheet service as seen through the gspread worksheet calls.        *)
(*                                                                         *)
(* Text is a tuple of one-character strings, so that "/" substitution and  *)
(* suffixing act on characters as they do in Python.  A dict is a function *)
(* whose DOMAIN is its key set.  A cell value is a record of one shape.    *)
(***************************************************************************)
EXTENDS Integers, Sequences, FiniteSets, TLC

\* ------------------------------------------------------------------ bounds
\* Number of export calls made, each through a builder instance of its own.
MaxExports == 2
\* Longest list of submissions handed to export as `data`.
MaxSubmissions == 2

\* ------------------------------------------------------------------ values
\* Python None, an int and a str as cell values.
None == [t |-> "none", i |-> 0, s |-> <<>>]
IntV(n) == [t |-> "int", i |-> n, s |-> <<>>]
StrV(x) == [t |-> "str", i |-> 0, s |-> x]

\* dict.get(key) with the default None.
Get(d, key) == IF key \in DOMAIN d THEN d[key] ELSE None

\* d[key] = val on a dict.
Put(d, key, val) == [x \in DOMAIN d \cup {key} |-> IF x = key THEN val ELSE d[x]]

\* dict.values() as a set.
Values(d) == {d[x] : x \in DOMAIN d}

\* The empty dict.
EmptyDict == [x \in {} |-> None]

\* common_tags: the synthetic fields of a joined export.
INDEX == <<"_", "i", "n", "d", "e", "x">>
PARENT_TABLE_NAME == <<"_", "p", "t", "n">>
PARENT_INDEX == <<"_", "p", "i">>

\* ExportBuilder.EXTRA_FIELDS, restricted to the synthetic fields.
EXTRA_FIELDS == <<INDEX, PARENT_TABLE_NAME, PARENT_INDEX>>

\* The title of the worksheet a new spreadsheet starts with.
SHEET1 == <<"S", "h", "e", "e", "t", "1">>

\* SheetsExportBuilder.FLATTENED_SHEET_TITLE
FLATTENED_SHEET_TITLE == <<"r", "a", "w">>

\* SheetsExportBuilder.SHEETS_BASE_URL % id ; key 0 stands for url = None.
SHEETS_BASE_URL == "https://docs.google.com/spreadsheet/ccc?key=%s&hl"
Url(id) == [base |-> SHEETS_BASE_URL, key |-> id]
NoUrl == [base |-> "", key |-> 0]

\* ------------------------------------------------------------------ titles
\* "_".join(section_name.split("/"))
SlashToUnderscore(name) ==
    [j \in 1..Len(name) |-> IF name[j] = "/" THEN "_" ELSE name[j]]

\* str(i) for a positive integer.
RECURSIVE Decimal(_)
Decimal(n) ==
    LET d == <<"0", "1", "2", "3", "4", "5", "6", "7", "8", "9">>[(n % 10) + 1]
    IN IF n < 10 THEN <<d>> ELSE Decimal(n \div 10) \o <<d>>

\* The loop of get_valid_sheet_name: suffix a counter until the name is new.
RECURSIVE Deduplicate(_, _, _)
Deduplicate(generated, i, existing) ==
    IF generated \notin existing
    THEN generated
    ELSE Deduplicate(generated \o Decimal(i), i + 1, existing)

\* ExportBuilder.get_valid_sheet_name(desired_name, existing_names), for
\* names shorter than a sheet name may be.
get_valid_sheet_name(desired, existing) == Deduplicate(desired, 1, existing)

\* ------------------------------------------------------------------ inputs
\* Short texts used by the forms, the submissions, the CSV and the XLSForm.
T(c) == <<c>>
N_m == <<"m">>
N_a_slash_b == <<"a", "/", "b">>
N_a_b == <<"a", "_", "b">>
N_survey == <<"s", "u", "r", "v", "e", "y">>
NA == <<"n", "/", "a">>

\* An element of a section: its xpath and its column title.
El(x, t) == [xpath |-> x, title |-> t]

\* Forms: the survey name and the sections (main form first, then repeats).
FormA ==
    [name |-> N_m,
     sections |-> << [name |-> N_m, elements |-> <<El(<<"q", "1">>, <<"Q", "1">>)>>],
                     [name |-> N_a_slash_b,
                      elements |-> <<El(<<"q", "2">>, <<"Q", "2">>),
                                     El(<<"q", "3">>, <<"Q", "3">>)>>],
                     [name |-> N_a_b, elements |-> <<El(<<"q", "4">>, <<"Q", "4">>)>>] >>]
FormB ==
    [name |-> SHEET1,
     sections |-> << [name |-> SHEET1, elements |-> <<El(<<"q", "1">>, <<"Q", "1">>)>>],
                     [name |-> N_survey,
                      elements |-> <<El(<<"q", "2">>, <<"Q", "2">>)>>] >>]
Forms == {FormA, FormB}

\* A dict of one key.
One(k, v) == [x \in {k} |-> v]

\* Submissions: the scalar answers and, per repeat, the list of child answers.
SubA1 ==
    [fields |-> One(<<"q", "1">>, StrV(T("x"))),
     repeats |-> One(N_a_slash_b, << One(<<"q", "2">>, StrV(T("y"))),
                                     One(<<"q", "3">>, StrV(T("z"))) >>)]
SubA2 ==
    [fields |-> EmptyDict,
     repeats |-> [x \in {N_a_slash_b, N_a_b} |->
                     IF x = N_a_b THEN << One(<<"q", "4">>, StrV(T("w"))) >>
                     ELSE << One(<<"q", "3">>, StrV(T("v"))) >>]]
SubB1 ==
    [fields |-> One(<<"q", "1">>, StrV(T("x"))),
     repeats |-> One(N_survey, << One(<<"q", "2">>, StrV(T("y"))) >>)]

\* The submissions a form has received, oldest first; they repeat.
SubmissionsOf(form) == IF form = FormA THEN <<SubA1, SubA2>> ELSE <<SubB1>>

\* The first n submissions of a form: the `data` of an export.
DataOf(form, n) ==
    [i \in 1..n |-> SubmissionsOf(form)[((i - 1) % Len(SubmissionsOf(form))) + 1]]

\* The CSV files written by CSVDataFrameBuilder: none, or a ragged one.
CsvEmpty == <<>>
CsvRagged ==
    << <<T("h"), T("k")>>, <<NA, T("v"), T("w")>>, <<T("u")>> >>
CsvFiles == {CsvEmpty, CsvRagged}

\* The XLSForm workbook of the form: no file, or sheets with their cell rows.
NoWorkbook == <<>>
Workbook ==
    << [name |-> N_survey,
        rows |-> << <<StrV(T("t")), StrV(T("n"))>>, <<StrV(T("i")), StrV(T("q"))>> >>],
       [name |-> SHEET1, rows |-> << <<StrV(T("s"))>> >>] >>
Workbooks == {NoWorkbook, Workbook}

\* The arguments of the constructor and of export for one export job.
Config(flat, xls, form, data, csv, wb) ==
    [flatten_repeated_fields |-> flat, export_xlsform |-> xls, xform |-> form,
     data |-> data, csv |-> csv, workbook |-> wb]
\* The configuration before any constructor has run: the class defaults of
\* lines 116-117 (flatten_repeated_fields = True, export_xlsform = True).
NoConfig == Config(TRUE, TRUE, FormA, <<>>, CsvEmpty, NoWorkbook)

\* ------------------------------------------------------------------ rows
\* The rows of one repeat in ExportBuilder.dict_to_joined_export: each child
\* gets the next index of its repeat, the index of its parent and the name
\* of its parent, and then its own answers (d.update).
ChildRows(children, first, index, name) ==
    [j \in 1..Len(children) |->
        LET d == [x \in {INDEX, PARENT_INDEX, PARENT_TABLE_NAME} |->
                     CASE x = INDEX -> IntV(first + j)
                       [] x = PARENT_INDEX -> IntV(index)
                       [] OTHER -> StrV(name)]
            own == children[j]
        IN [x \in DOMAIN d \cup DOMAIN own |-> IF x \in DOMAIN own THEN own[x] ELSE d[x]]]

\* A section's entry of a joined export: a dict (type "dict") or a list of
\* dicts (type "list").
DictRow(d) == [type |-> "dict", d |-> d, l |-> <<>>]
ListRow(l) == [type |-> "list", d |-> EmptyDict, l |-> l]

\* ExportBuilder.dict_to_joined_export(d, index, indices, name) on a
\* submission with one level of repeats: the joined export and the indices.
dict_to_joined_export(d, index, indices, name) ==
    LET reps == DOMAIN d.repeats
        main == IF DOMAIN d.fields = {} THEN {} ELSE {name}
    IN [output |->
            [sn \in reps \cup main |->
                IF sn \in reps
                THEN ListRow(ChildRows(d.repeats[sn],
                                       IF sn \in DOMAIN indices THEN indices[sn] ELSE 0,
                                       index, name))
                ELSE DictRow(d.fields)],
        indices |->
            [sn \in DOMAIN indices \cup {r \in reps : Len(d.repeats[r]) > 0} |->
                (IF sn \in DOMAIN indices THEN indices[sn] ELSE 0)
                + (IF sn \in reps THEN Len(d.repeats[sn]) ELSE 0)]]

\* _insert_data, lines 241-244: the main section's entry gets the
\* submission's index and the parent index -1.
AttachMeta(output, survey_name, index) ==
    LET base == IF survey_name \in DOMAIN output THEN output[survey_name].d ELSE EmptyDict
    IN Put(output, survey_name,
           DictRow(Put(Put(base, INDEX, IntV(index)), PARENT_INDEX, IntV(0 - 1))))

\* ExportBuilder.pre_process_row on a section without select-multiple, gps
\* or numeric/date elements: no value is split or converted.
pre_process_row(row, section) == row

\* fields of a section in _insert_data: the element xpaths, then EXTRA_FIELDS.
Fields(section) ==
    [j \in 1..Len(section.elements) |-> section.elements[j].xpath] \o EXTRA_FIELDS

\* headers of a section in _insert_headers: the element titles, then EXTRA_FIELDS.
Headers(section) ==
    [j \in 1..Len(section.elements) |-> StrV(section.elements[j].title)]
    \o [j \in 1..Len(EXTRA_FIELDS) |-> StrV(EXTRA_FIELDS[j])]

\* write_row leaving the parent's section name in place of the sheet title.
ParentTitleUnmapped(data, titles) == Get(data, PARENT_TABLE_NAME)

\* write_row, lines 292-293: the parent table name is replaced by the
\* generated title of the parent's sheet (dict.get: None when there is none).
ParentTitle(data, titles) ==
    LET p == Get(data, PARENT_TABLE_NAME)
    IN IF p.t = "str" /\ p.s \in DOMAIN titles THEN StrV(titles[p.s]) ELSE None

\* write_row dropping the fields the record lacks instead of writing None.
RowValuesShifting(data, fields, titles) ==
    LET d == Put(data, PARENT_TABLE_NAME, ParentTitle(data, titles))
    IN SelectSeq([j \in 1..Len(fields) |-> Get(d, fields[j])], LAMBDA v : v # None)

\* write_row, line 294: the list handed to append_row.
RowValues(data, fields, titles) ==
    LET d == Put(data, PARENT_TABLE_NAME, ParentTitle(data, titles))
    IN [j \in 1..Len(fields) |-> Get(d, fields[j])]

\* export_flattened, line 174: 'n/a' entries become ''.
FilterRow(row) == [j \in 1..Len(row) |-> StrV(IF row[j] = NA THEN <<>> ELSE row[j])]

\* ------------------------------------------------------------------ remote
\* A worksheet of the remote service: its spreadsheet, title and size, the
\* cells that were written (keyed by <<row, column>>), the number of
\* update_cells calls it received and the cells of the last one.
Worksheet(ss, title, rows, cols) ==
    [ss |-> ss, title |-> title, row_count |-> rows, col_count |-> cols,
     cells |-> [c \in {} |-> None], batches |-> 0, last_batch |-> {}]

\* worksheet.resize(cols=n): columns beyond n are dropped with their cells.
Resize(w, n) ==
    [w EXCEPT !.col_count = n,
              !.cells = [c \in {x \in DOMAIN w.cells : x[2] <= n} |-> w.cells[c]]]

\* worksheet.update_cells(cell_list) with the cells of row `index`.
UpdateCells(w, index, values) ==
    LET sent == {<<index, j>> : j \in 1..Len(values)}
    IN [w EXCEPT !.cells = [c \in DOMAIN w.cells \cup sent |->
                               IF c \in sent THEN values[c[2]] ELSE w.cells[c]],
                 !.batches = @ + 1,
                 !.last_batch = sent]

\* update_row with the resize made unconditional: a short row narrows the sheet.
update_row_narrowing(w, index, values) ==
    UpdateCells(Resize(w, Len(values)), index, values)

\* update_row(worksheet, index, values)
update_row(w, index, values) ==
    LET data_width == Len(values)
        wide == IF w.col_count < data_width THEN Resize(w, data_width) ELSE w
    IN UpdateCells(wide, index, values)

\* gspread Worksheet.append_row(values): one more row, filled with values.
append_row(w, values) ==
    LET grown == [w EXCEPT !.row_count = @ + 1]
    IN update_row(grown, grown.row_count, values)

\* write_row(data, worksheet, fields, worksheet_titles)
write_row(data, w, fields, titles) == append_row(w, RowValues(data, fields, titles))

\* The loop over child rows run from the last child to the first.
RECURSIVE WriteRowsReversed(_, _, _, _, _)
WriteRowsReversed(rows, section, w, fields, titles) ==
    IF rows = <<>>
    THEN w
    ELSE write_row(pre_process_row(Head(rows), section),
                   WriteRowsReversed(Tail(rows), section, w, fields, titles),
                   fields, titles)

\* The rows a section's entry of the joined export contributes
\* (_insert_data, lines 255-264), written one after the other.
RECURSIVE WriteRows(_, _, _, _, _)
WriteRows(rows, section, w, fields, titles) ==
    IF rows = <<>>
    THEN w
    ELSE WriteRows(Tail(rows), section,
                   write_row(pre_process_row(Head(rows), section), w, fields, titles),
                   fields, titles)

\* The rows of update_row calls made in a loop, from row `first` on.
RECURSIVE UpdateRows(_, _, _)
UpdateRows(w, first, rows) ==
    IF rows = <<>>
    THEN w
    ELSE UpdateRows(update_row(w, first, Head(rows)), first + 1, Tail(rows))

\* ------------------------------------------------------------------ state
VARIABLES
    pc,                \* position of the running export call, or idle/done/raised
    k,                 \* loop counter of the running step
    cfg,               \* the builder's configuration and the call's arguments
    client,            \* self.client is logged in
    spreadsheet,       \* self.spreadsheet: id of the spreadsheet, 0 for None
    url,               \* self.url
    cur,               \* the worksheet handle held in a local (ws, destination_worksheet)
    indices,           \* the indices dict of _insert_data
    worksheets,        \* SheetsExportBuilder.worksheets: section name -> worksheet id
    worksheet_titles,  \* SheetsExportBuilder.worksheet_titles: section name -> title
    nss,               \* remote: number of spreadsheets created so far
    nws,               \* remote: number of worksheets created so far
    wss,               \* remote: worksheet id -> worksheet, for the existing ones
    calls,             \* the remote calls of the running export, in order
    updates,           \* the update_row calls of the last step that made any
    exports            \* number of export calls started

vars == <<pc, k, cfg, client, spreadsheet, url, cur, indices, worksheets,
          worksheet_titles, nss, nws, wss, calls, updates, exports>>

\* One remote call: the step of export that made it and what it addressed.
Call(step, ss, ws) == [step |-> step, ss |-> ss, ws |-> ws]

\* One update_row call: the worksheet before and after, and the arguments.
Update(before, index, values) ==
    [before |-> before, index |-> index, values |-> values,
     after |-> update_row(before, index, values)]

\* The worksheets feed of a spreadsheet: the ids of its worksheets.
Feed(ss) == {id \in DOMAIN wss : wss[id].ss = ss}

\* Whether the service takes an add_worksheet request: a title that is new
\* to the spreadsheet is taken; for a title already in use the service may
\* take the request or refuse it (gspread then raises).
Accepts(ss, title) ==
    IF \E id \in Feed(ss) : wss[id].title = title THEN BOOLEAN ELSE {TRUE}

\* Where export goes after export_flattened / export_tabular (lines 147-149,
\* 208-210): to _insert_xlsform when it is asked for and the form has a file.
AfterExport ==
    IF cfg.export_xlsform /\ cfg.workbook # NoWorkbook THEN "xlsform" ELSE "cleanup"

\* The class attributes of SheetsExportBuilder, lines 105-112; no call yet.
Init ==
    /\ pc = "idle"
    /\ k = 0
    /\ cfg = NoConfig
    /\ client = FALSE
    /\ spreadsheet = 0
    /\ url = NoUrl
    /\ cur = 0
    /\ indices = EmptyDict
    /\ worksheets = EmptyDict
    /\ worksheet_titles = EmptyDict
    /\ nss = 0
    /\ nws = 0
    /\ wss = EmptyDict
    /\ calls = <<>>
    /\ updates = <<>>
    /\ exports = 0

\* __init__ of a new builder, and the entry into its export: the instance
\* starts from the class attributes; worksheets and worksheet_titles are the
\* dicts of the class.
Construct ==
    /\ pc \in {"idle", "done", "raised"}
    /\ exports < MaxExports
    /\ \E flat \in BOOLEAN, xls \in BOOLEAN, form \in Forms :
       \E n \in {0, MaxSubmissions}, csv \in CsvFiles, wb \in Workbooks :
          /\ flat => form = FormA /\ n = 0
          /\ ~flat => csv = CsvEmpty
          /\ cfg' = Config(flat, xls, form, DataOf(form, n), csv, wb)
    /\ exports' = exports + 1
    /\ pc' = "login"
    /\ k' = 0
    /\ client' = FALSE
    /\ spreadsheet' = 0
    /\ url' = NoUrl
    /\ cur' = 0
    /\ indices' = EmptyDict
    /\ calls' = <<>>
    /\ updates' = <<>>
    /\ UNCHANGED <<worksheets, worksheet_titles, nss, nws, wss>>

\* export, line 132
Login ==
    /\ pc = "login"
    /\ client' = TRUE
    /\ calls' = Append(calls, Call("authenticate", 0, 0))
    /\ pc' = "new"
    /\ UNCHANGED <<k, cfg, spreadsheet, url, cur, indices, worksheets,
                   worksheet_titles, nss, nws, wss, updates, exports>>

\* export, lines 135-136, with SheetsClient.new: the service makes the
\* spreadsheet with its default worksheet.
NewSpreadsheet ==
    /\ pc = "new"
    /\ nss' = nss + 1
    /\ nws' = nws + 1
    /\ wss' = Put(wss, nws + 1, Worksheet(nss + 1, SHEET1, 1, 1))
    /\ spreadsheet' = nss + 1
    /\ url' = Url(nss + 1)
    /\ calls' = Append(calls, Call("create_spreadsheet", nss + 1, 0))
    /\ pc' = "share"
    /\ UNCHANGED <<k, cfg, client, cur, indices, worksheets, worksheet_titles,
                   updates, exports>>

\* export, lines 139-145
AddServiceAccount ==
    /\ pc = "share"
    /\ calls' = Append(calls, Call("share", spreadsheet, 0))
    /\ pc' = IF cfg.flatten_repeated_fields THEN "flattened" ELSE "create"
    /\ k' = 1
    /\ UNCHANGED <<cfg, client, spreadsheet, url, cur, indices, worksheets,
                   worksheet_titles, nss, nws, wss, updates, exports>>

\* ------------------------------------------------------------------ export_flattened
\* export_flattened, lines 170-183: read the CSV back, filter it, and make
\* the 'raw' worksheet unless there is no row.
ExportFlattened ==
    /\ pc = "flattened"
    /\ LET rows == [j \in 1..Len(cfg.csv) |-> FilterRow(cfg.csv[j])]
       IN IF Len(rows) = 0
          THEN /\ pc' = AfterExport
               /\ UNCHANGED <<cur, nws, wss, calls>>
          ELSE \E ok \in Accepts(spreadsheet, FLATTENED_SHEET_TITLE) :
               IF ok
               THEN /\ nws' = nws + 1
                    /\ wss' = Put(wss, nws + 1,
                                  Worksheet(spreadsheet, FLATTENED_SHEET_TITLE,
                                            Len(rows), Len(rows[1])))
                    /\ cur' = nws + 1
                    /\ calls' = Append(calls, Call("create_worksheet", spreadsheet, nws + 1))
                    /\ pc' = "rows"
               ELSE /\ pc' = "raised"
                    /\ UNCHANGED <<cur, nws, wss, calls>>
    /\ k' = 1
    /\ UNCHANGED <<cfg, client, spreadsheet, url, indices, worksheets,
                   worksheet_titles, nss, updates, exports>>

\* export_flattened, lines 186-187: one turn of the loop.
FlattenedRow ==
    /\ pc = "rows"
    /\ LET values == FilterRow(cfg.csv[k])
       IN /\ wss' = [wss EXCEPT ![cur] = update_row(@, k, values)]
          /\ updates' = <<Update(wss[cur], k, values)>>
          /\ calls' = Append(calls, Call(IF k = 1 THEN "write_header" ELSE "write_data",
                                         wss[cur].ss, cur))
    /\ IF k = Len(cfg.csv)
       THEN pc' = AfterExport /\ k' = 1
       ELSE pc' = pc /\ k' = k + 1
    /\ UNCHANGED <<cfg, client, spreadsheet, url, cur, indices, worksheets,
                   worksheet_titles, nss, nws, exports>>

\* ------------------------------------------------------------------ export_tabular
\* export_tabular with the data written before the headers.
TabularNextDataFirst(step) ==
    CASE step = "create" -> "data"
      [] step = "data" -> "headers"
      [] OTHER -> AfterExport

\* export_tabular, lines 191-197, and export, line 148: the step after `step`.
TabularNext(step) ==
    CASE step = "create" -> "headers"
      [] step = "headers" -> "data"
      [] OTHER -> AfterExport

\* _create_worksheets, lines 281-283: the title of a section's worksheet.
SheetTitle(section_name, titles) ==
    get_valid_sheet_name(SlashToUnderscore(section_name), Values(titles))

\* _create_worksheets keeping the worksheet a section already has in the dict.
StoreWorksheetOnce(map, section_name, id) ==
    IF section_name \in DOMAIN map THEN map ELSE Put(map, section_name, id)

\* _create_worksheets, line 286: the worksheet is kept under the section name.
StoreWorksheet(map, section_name, id) == Put(map, section_name, id)

\* _create_worksheets: one turn of the loop.  The title is recorded before
\* the worksheet is asked for.
CreateWorksheet ==
    /\ pc = "create"
    /\ LET section == cfg.xform.sections[k]
           title == SheetTitle(section.name, worksheet_titles)
           num_cols == Len(section.elements) + Len(EXTRA_FIELDS)
       IN /\ worksheet_titles' = Put(worksheet_titles, section.name, title)
          /\ \E ok \in Accepts(spreadsheet, title) :
             IF ok
             THEN /\ nws' = nws + 1
                  /\ wss' = Put(wss, nws + 1, Worksheet(spreadsheet, title, 1, num_cols))
                  /\ worksheets' = StoreWorksheet(worksheets, section.name, nws + 1)
                  /\ calls' = Append(calls, Call("create_worksheet", spreadsheet, nws + 1))
                  /\ IF k = Len(cfg.xform.sections)
                     THEN pc' = TabularNext(pc) /\ k' = 1
                     ELSE pc' = pc /\ k' = k + 1
             ELSE /\ pc' = "raised"
                  /\ UNCHANGED <<k, nws, wss, worksheets, calls>>
    /\ UNCHANGED <<cfg, client, spreadsheet, url, cur, indices, nss, updates, exports>>

\* Every section looked up under the main section's name.
SheetOfMain(map, section) == map[cfg.xform.name]

\* _insert_data, line 252, and _insert_headers, line 274: a section's worksheet.
SheetOf(map, section) == map[section.name]

\* _insert_headers: one turn of the loop.
InsertHeaders ==
    /\ pc = "headers"
    /\ LET section == cfg.xform.sections[k]
           ws == SheetOf(worksheets, section)
       IN /\ wss' = [wss EXCEPT ![ws] = update_row(@, 1, Headers(section))]
          /\ updates' = <<Update(wss[ws], 1, Headers(section))>>
          /\ calls' = Append(calls, Call("write_header", wss[ws].ss, ws))
    /\ IF k = Len(cfg.xform.sections)
       THEN pc' = TabularNext(pc) /\ k' = 1
       ELSE pc' = pc /\ k' = k + 1
    /\ UNCHANGED <<cfg, client, spreadsheet, url, cur, indices, worksheets,
                   worksheet_titles, nss, nws, exports>>

\* The rows of a section in a joined export (lines 255-261): the dict, the
\* children of the list, or nothing.
SectionRows(output, section) ==
    IF section.name \notin DOMAIN output
    THEN <<>>
    ELSE IF output[section.name].type = "dict"
         THEN <<output[section.name].d>>
         ELSE output[section.name].l

\* _insert_data, lines 245-264: the sections' rows of one submission,
\* written section by section.
RECURSIVE InsertSections(_, _, _, _, _)
InsertSections(W, sections, output, map, titles) ==
    IF sections = <<>>
    THEN W
    ELSE LET section == Head(sections)
             ws == SheetOf(map, section)
         IN InsertSections(
                [W EXCEPT ![ws] = WriteRows(SectionRows(output, section), section, @,
                                            Fields(section), titles)],
                Tail(sections), output, map, titles)

\* The append_row calls of InsertSections, in order.
RECURSIVE InsertCalls(_, _, _, _)
InsertCalls(W, sections, output, map) ==
    IF sections = <<>>
    THEN <<>>
    ELSE LET section == Head(sections)
             ws == SheetOf(map, section)
         IN [j \in 1..Len(SectionRows(output, section)) |->
                Call("write_data", W[ws].ss, ws)]
            \o InsertCalls(W, Tail(sections), output, map)

\* _insert_data: one turn of the loop over data.
InsertData ==
    /\ pc = "data"
    /\ IF Len(cfg.data) = 0
       THEN /\ pc' = TabularNext(pc)
            /\ UNCHANGED <<k, indices, wss, calls>>
       ELSE LET joined == dict_to_joined_export(cfg.data[k], k, indices, cfg.xform.name)
                output == AttachMeta(joined.output, cfg.xform.name, k)
            IN /\ indices' = joined.indices
               /\ wss' = InsertSections(wss, cfg.xform.sections, output, worksheets,
                                        worksheet_titles)
               /\ calls' = calls \o InsertCalls(wss, cfg.xform.sections, output, worksheets)
               /\ IF k = Len(cfg.data)
                  THEN pc' = TabularNext(pc) /\ k' = 1
                  ELSE pc' = pc /\ k' = k + 1
    /\ UNCHANGED <<cfg, client, spreadsheet, url, cur, worksheets, worksheet_titles,
                   nss, nws, updates, exports>>

\* ------------------------------------------------------------------ _insert_xlsform
\* The update_row calls of lines 225-228 on a new worksheet, in order.
RECURSIVE XlsUpdates(_, _, _)
XlsUpdates(w, first, rows) ==
    IF rows = <<>>
    THEN <<>>
    ELSE <<Update(w, first, Head(rows))>>
         \o XlsUpdates(update_row(w, first, Head(rows)), first + 1, Tail(rows))

\* _insert_xlsform, lines 219-228: one sheet of the workbook is copied to a
\* new worksheet of the same name.
InsertXlsform ==
    /\ pc = "xlsform"
    /\ LET sheet == cfg.workbook[k]
           num_rows == Len(sheet.rows)
           num_cols == IF num_rows = 0 THEN 0 ELSE Len(sheet.rows[1])
           fresh == Worksheet(spreadsheet, sheet.name, num_rows, num_cols)
       IN \E ok \in Accepts(spreadsheet, sheet.name) :
          IF ok
          THEN /\ nws' = nws + 1
               /\ cur' = nws + 1
               /\ wss' = Put(wss, nws + 1, UpdateRows(fresh, 1, sheet.rows))
               /\ updates' = IF num_rows = 0 THEN updates
                             ELSE XlsUpdates(fresh, 1, sheet.rows)
               /\ calls' = calls
                           \o <<Call("insert_xlsform", spreadsheet, nws + 1)>>
                           \o [j \in 1..num_rows |->
                                  Call("insert_xlsform", spreadsheet, nws + 1)]
               /\ IF k = Len(cfg.workbook)
                  THEN pc' = "cleanup" /\ k' = 1
                  ELSE pc' = pc /\ k' = k + 1
          ELSE /\ pc' = "raised"
               /\ UNCHANGED <<k, cur, nws, wss, updates, calls>>
    /\ UNCHANGED <<cfg, client, spreadsheet, url, indices, worksheets,
                   worksheet_titles, nss, exports>>

\* ------------------------------------------------------------------ cleanup
\* export, lines 155-159: the worksheets of the feed that are deleted.
ToDelete(ss) == {id \in Feed(ss) : wss[id].title = SHEET1}

\* A set of worksheet ids as a list, in feed order (oldest first).
RECURSIVE InOrder(_)
InOrder(S) ==
    IF S = {}
    THEN <<>>
    ELSE LET m == CHOOSE x \in S : \A y \in S : x <= y
         IN <<m>> \o InOrder(S \ {m})

\* export, lines 155-159: every worksheet of the feed titled 'Sheet1' is
\* deleted, and export returns.
Cleanup ==
    /\ pc = "cleanup"
    /\ LET gone == ToDelete(spreadsheet)
       IN /\ wss' = [id \in DOMAIN wss \ gone |-> wss[id]]
          /\ calls' = calls \o [j \in 1..Cardinality(gone) |->
                                   Call("delete_default", spreadsheet, InOrder(gone)[j])]
    /\ pc' = "done"
    /\ UNCHANGED <<k, cfg, client, spreadsheet, url, cur, indices, worksheets,
                   worksheet_titles, nss, nws, updates, exports>>

Next ==
    \/ Construct
    \/ Login
    \/ NewSpreadsheet
    \/ AddServiceAccount
    \/ ExportFlattened
    \/ FlattenedRow
    \/ CreateWorksheet
    \/ InsertHeaders
    \/ InsertData
    \/ InsertXlsform
    \/ Cleanup

Spec == Init /\ [][Next]_vars

\* ------------------------------------------------------------------ claims
\* The place of a step in the order of export.
Rank(step) ==
    CASE step = "authenticate" -> 1
      [] step = "create_spreadsheet" -> 2
      [] step = "share" -> 3
      [] step = "create_worksheet" -> 4
      [] step = "write_header" -> 5
      [] step = "write_data" -> 6
      [] step = "insert_xlsform" -> 7
      [] step = "delete_default" -> 8

\* The worksheets the running export asked for (add_worksheet).
Created ==
    {calls[j].ws : j \in {i \in 1..Len(calls) :
                            calls[i].step \in {"create_worksheet", "insert_xlsform"}}}

\* The worksheets made by _create_worksheets or export_flattened.
CreatedData ==
    {calls[j].ws : j \in {i \in 1..Len(calls) : calls[i].step = "create_worksheet"}}

\* C1: the remote calls of an export are made in the order authenticate,
\* create spreadsheet, create worksheets, write headers, write data rows,
\* insert XLSForm sheets (only when export_xlsform is set), delete default
\* sheet: the first call is the login, no call of an earlier step follows a
\* call of a later one, every call on a worksheet comes after the creation
\* of its spreadsheet, every data row of a worksheet comes after that
\* worksheet's header row, and when export returns the last call was the
\* deletion of the default sheet.
C1_LinearOrder ==
    /\ calls # <<>> => calls[1].step = "authenticate"
    /\ \A i, j \in 1..Len(calls) : i < j => Rank(calls[i].step) <= Rank(calls[j].step)
    /\ \A j \in 1..Len(calls) :
          calls[j].ws # 0 =>
             \E i \in 1..(j - 1) :
                calls[i].step = "create_spreadsheet" /\ calls[i].ss = calls[j].ss
    /\ \A j \in 1..Len(calls) :
          calls[j].step = "write_data" =>
             \E i \in 1..(j - 1) :
                calls[i].step = "write_header" /\ calls[i].ws = calls[j].ws
    /\ \A j \in 1..Len(calls) :
          calls[j].step \in {"write_header", "write_data"} =>
             \E i \in 1..(j - 1) :
                calls[i].step = "create_worksheet" /\ calls[i].ws = calls[j].ws
    /\ \A j \in 1..Len(calls) : calls[j].step = "insert_xlsform" => cfg.export_xlsform
    /\ pc = "done" => calls[Len(calls)].step = "delete_default"

\* A tabular export with data and XLSForm sheets has returned.
C1_Witness ==
    /\ pc = "done"
    /\ ~cfg.flatten_repeated_fields
    /\ \E j \in 1..Len(calls) : calls[j].step = "write_data"
    /\ \E j \in 1..Len(calls) : calls[j].step = "insert_xlsform"

\* C4: an export makes exactly one spreadsheet, every worksheet it creates,
\* writes or deletes belongs to that spreadsheet (the worksheet kept for a
\* section in self.worksheets is one this export created), and self.url
\* carries that spreadsheet's id.
C4_OneSpreadsheet ==
    /\ Cardinality({j \in 1..Len(calls) : calls[j].step = "create_spreadsheet"})
       = IF pc \in {"idle", "login", "new"} THEN 0 ELSE 1
    /\ \A j \in 1..Len(calls) :
          calls[j].step = "create_spreadsheet" =>
             calls[j].ss = spreadsheet /\ url = Url(spreadsheet) /\ url.key = calls[j].ss
    /\ \A j \in 1..Len(calls) : calls[j].ws # 0 => calls[j].ss = spreadsheet
    /\ \A id \in Created \cap DOMAIN wss : wss[id].ss = spreadsheet
    /\ (~cfg.flatten_repeated_fields
        /\ pc \in {"create", "headers", "data", "xlsform", "cleanup", "done"})
       => \A j \in 1..(IF pc = "create" THEN k - 1 ELSE Len(cfg.xform.sections)) :
             worksheets[cfg.xform.sections[j].name] \in Created
    /\ nss = IF pc \in {"login", "new"} THEN exports - 1 ELSE exports

\* A later tabular export has returned while the class dict still holds
\* worksheets of an earlier export.
C4_Witness ==
    /\ pc = "done"
    /\ exports = 2
    /\ ~cfg.flatten_repeated_fields
    /\ \E j \in 1..Len(calls) : calls[j].step = "write_data"
    /\ \E n \in DOMAIN worksheets :
          worksheets[n] \in DOMAIN wss /\ wss[worksheets[n]].ss # spreadsheet

Max(a, b) == IF a > b THEN a ELSE b

\* C9: update_row leaves the worksheet max(columns before, len(values))
\* columns wide, puts values[i-1] into cell (index, i), sends exactly those
\* cells in one update_cells call, and changes no cell of another row.
C9_UpdateRow ==
    \A n \in 1..Len(updates) :
       LET u == updates[n]
           row == {<<u.index, j>> : j \in 1..Len(u.values)}
       IN /\ u.after.col_count = Max(u.before.col_count, Len(u.values))
          /\ \A j \in 1..Len(u.values) :
                /\ <<u.index, j>> \in DOMAIN u.after.cells
                /\ u.after.cells[<<u.index, j>>] = u.values[j]
          /\ u.after.batches = u.before.batches + 1
          /\ u.after.last_batch = row
          /\ \A c \in DOMAIN u.before.cells :
                c[1] # u.index => c \in DOMAIN u.after.cells
                                  /\ u.after.cells[c] = u.before.cells[c]
          /\ \A c \in DOMAIN u.after.cells : c[1] # u.index => c \in DOMAIN u.before.cells
          /\ u.after.row_count = u.before.row_count
          /\ u.after.title = u.before.title

\* update_row got fewer values than the worksheet has columns, on a
\* worksheet that an earlier call had widened and that holds other rows.
C9_Witness ==
    \E n \in 1..Len(updates) :
       /\ Len(updates[n].values) < updates[n].before.col_count
       /\ updates[n].before.cells # EmptyDict
       /\ cfg.flatten_repeated_fields
       /\ updates[n].before.col_count > Len(cfg.csv[1])

\* The indices dict of _insert_data before the i-th submission.
RECURSIVE IndicesBefore(_)
IndicesBefore(i) ==
    IF i = 1
    THEN EmptyDict
    ELSE dict_to_joined_export(cfg.data[i - 1], i - 1, IndicesBefore(i - 1),
                               cfg.xform.name).indices

\* The joined export of the i-th submission, with the main section's meta fields.
OutputOf(i) ==
    AttachMeta(dict_to_joined_export(cfg.data[i], i, IndicesBefore(i),
                                     cfg.xform.name).output,
               cfg.xform.name, i)

\* The records of a section in the first m submissions, in submission order
\* and, within a submission, in list order.
RECURSIVE RecordsOf(_, _)
RecordsOf(section, m) ==
    IF m = 0 THEN <<>> ELSE RecordsOf(section, m - 1) \o SectionRows(OutputOf(m), section)

\* Tabular export has reached _insert_data.
InTabularData ==
    ~cfg.flatten_repeated_fields /\ pc \in {"data", "xlsform", "cleanup", "done"}

\* The number of submissions _insert_data has gone through.
Processed == IF pc = "data" THEN (IF cfg.data = <<>> THEN 0 ELSE k - 1) ELSE Len(cfg.data)

\* The sections of the running export whose worksheet is in the spreadsheet.
LiveSections ==
    {j \in 1..Len(cfg.xform.sections) :
        /\ cfg.xform.sections[j].name \in DOMAIN worksheets
        /\ worksheets[cfg.xform.sections[j].name] \in DOMAIN wss}

\* C6: in tabular export every row of a section's worksheet has exactly
\* len(elements) + len(EXTRA_FIELDS) entries; the header row holds the
\* element titles followed by the extra fields; the k-th entry of a data row
\* is the record's value of the k-th field (element xpaths in order, then the
\* extra fields), and None where the record lacks the field.
C6_RowsAligned ==
    InTabularData =>
       \A n \in LiveSections :
          LET section == cfg.xform.sections[n]
              w == wss[worksheets[section.name]]
              ne == Len(section.elements)
              width == ne + Len(EXTRA_FIELDS)
              recs == RecordsOf(section, Processed)
          IN /\ w.col_count = width
             /\ w.row_count = 1 + Len(recs)
             /\ DOMAIN w.cells = (1..w.row_count) \X (1..width)
             /\ \A j \in 1..width :
                   w.cells[<<1, j>>] = IF j <= ne THEN StrV(section.elements[j].title)
                                       ELSE StrV(EXTRA_FIELDS[j - ne])
             /\ \A r \in 1..Len(recs), j \in 1..width :
                   LET f == IF j <= ne THEN section.elements[j].xpath
                            ELSE EXTRA_FIELDS[j - ne]
                       cell == w.cells[<<r + 1, j>>]
                   IN IF f = PARENT_TABLE_NAME
                      THEN (PARENT_TABLE_NAME \notin DOMAIN recs[r]) => cell = None
                      ELSE cell = IF f \in DOMAIN recs[r] THEN recs[r][f] ELSE None

\* A returned tabular export wrote a row whose record lacks the first
\* element and has the second.
C6_Witness ==
    /\ pc = "done"
    /\ InTabularData
    /\ \E n \in LiveSections :
          LET w == wss[worksheets[cfg.xform.sections[n].name]]
          IN \E r \in 2..w.row_count :
                /\ Len(cfg.xform.sections[n].elements) = 2
                /\ w.cells[<<r, 1>>] = None
                /\ w.cells[<<r, 2>>] # None

\* The number of CSV rows export_flattened has written.
FlatWritten == IF pc = "rows" THEN k - 1 ELSE Len(cfg.csv)

\* C7: in tabular export a section's worksheet has the header in row 1 and
\* below it the section's rows in the order of the submissions and, within a
\* submission, of the child list; the main section's row of the i-th
\* submission carries index i and parent index -1.  In flattened export row i
\* of the 'raw' worksheet is the i-th row of the CSV ('n/a' entries blanked).
C7_RowsInOrder ==
    /\ InTabularData =>
          \A n \in LiveSections :
             LET section == cfg.xform.sections[n]
                 w == wss[worksheets[section.name]]
                 ne == Len(section.elements)
                 recs == RecordsOf(section, Processed)
             IN /\ w.row_count = 1 + Len(recs)
                /\ \A j \in 1..ne : w.cells[<<1, j>>] = StrV(section.elements[j].title)
                /\ \A r \in 1..Len(recs) :
                      /\ \A j \in 1..ne :
                            w.cells[<<r + 1, j>>] = Get(recs[r], section.elements[j].xpath)
                      /\ w.cells[<<r + 1, ne + 1>>] = recs[r][INDEX]
                      /\ w.cells[<<r + 1, ne + 3>>] = recs[r][PARENT_INDEX]
                /\ \A r \in 1..(Len(recs) - 1) :
                      w.cells[<<r + 1, ne + 3>>].i <= w.cells[<<r + 2, ne + 3>>].i
                /\ section.name = cfg.xform.name =>
                      /\ Len(recs) = Processed
                      /\ \A i \in 1..Processed :
                            /\ w.cells[<<i + 1, ne + 1>>] = IntV(i)
                            /\ w.cells[<<i + 1, ne + 3>>] = IntV(0 - 1)
                /\ section.name # cfg.xform.name =>
                      \A r \in 1..Len(recs) :
                         /\ w.cells[<<r + 1, ne + 1>>] = IntV(r)
                         /\ w.cells[<<r + 1, ne + 3>>].i \in 1..Processed
    /\ (cfg.flatten_repeated_fields /\ pc \in {"rows", "xlsform", "cleanup", "done"}) =>
          \A id \in CreatedData :
             /\ wss[id].title = FLATTENED_SHEET_TITLE
             /\ \A c \in DOMAIN wss[id].cells : c[1] \in 1..FlatWritten
             /\ \A i \in 1..FlatWritten :
                   \A j \in 1..Len(cfg.csv[i]) :
                      /\ <<i, j>> \in DOMAIN wss[id].cells
                      /\ wss[id].cells[<<i, j>>]
                         = StrV(IF cfg.csv[i][j] = NA THEN <<>> ELSE cfg.csv[i][j])

\* A returned tabular export of two submissions whose first has a repeat
\* with two children.
C7_Witness ==
    /\ pc = "done"
    /\ InTabularData
    /\ Len(cfg.data) = 2
    /\ \E n \in LiveSections :
          LET section == cfg.xform.sections[n]
          IN /\ section.name # cfg.xform.name
             /\ Len(SectionRows(OutputOf(1), section)) = 2
             /\ wss[worksheets[section.name]].row_count >= 3

\* C8: the parent-table entry of a written row is the generated title of the
\* parent section's worksheet: for a child row of parent section P it is
\* worksheet_titles[P], the title of P's worksheet in the same spreadsheet,
\* which holds the parent's row; for a row of the main section it is None.
C8_ParentTitle ==
    InTabularData =>
       \A n \in LiveSections :
          LET section == cfg.xform.sections[n]
              w == wss[worksheets[section.name]]
              col == Len(section.elements) + 2
              recs == RecordsOf(section, Processed)
          IN \A r \in 1..Len(recs) :
                LET p == Get(recs[r], PARENT_TABLE_NAME)
                    cell == w.cells[<<r + 1, col>>]
                IN IF p = None
                   THEN cell = None /\ section.name = cfg.xform.name
                   ELSE /\ p.s \in DOMAIN worksheet_titles
                        /\ cell = StrV(worksheet_titles[p.s])
                        /\ p.s \in DOMAIN worksheets
                        /\ pc # "done" => worksheets[p.s] \in DOMAIN wss
                        /\ worksheets[p.s] \in DOMAIN wss =>
                              LET pw == wss[worksheets[p.s]]
                              IN /\ StrV(pw.title) = cell
                                 /\ pw.ss = w.ss
                                 /\ \E q \in 2..pw.row_count :
                                       \E c \in 1..pw.col_count :
                                          /\ pw.cells[<<1, c>>] = StrV(INDEX)
                                          /\ pw.cells[<<q, c>>]
                                             = recs[r][PARENT_INDEX]

\* A child row was written whose parent's sheet got a deduplicated title.
C8_Witness ==
    /\ InTabularData
    /\ \E n \in LiveSections :
          LET section == cfg.xform.sections[n]
              w == wss[worksheets[section.name]]
              col == Len(section.elements) + 2
          IN \E r \in 2..w.row_count :
                /\ w.cells[<<r, col>>] # None
                /\ w.cells[<<r, col>>] # StrV(cfg.xform.name)
                /\ w.cells[<<r, col>>] = StrV(worksheet_titles[cfg.xform.name])

\* The section worksheets are 1:1 with the sections: every section has an
\* entry in self.worksheets, the entries of two sections differ, and the
\* worksheets made for data are exactly the sections' entries.
OneToOne ==
    LET names == {cfg.xform.sections[j].name : j \in 1..Len(cfg.xform.sections)}
    IN /\ names \subseteq DOMAIN worksheets
       /\ \A a, b \in names : a # b => worksheets[a] # worksheets[b]
       /\ CreatedData = {worksheets[a] : a \in names}

\* C3 as stated: after export every section of self.sections has exactly one
\* worksheet in the spreadsheet holding its rows, self.worksheets maps the
\* section to it, no two sections share one, and every data worksheet of the
\* spreadsheet belongs to exactly one section.
C3_Original ==
    pc = "done" =>
       /\ OneToOne
       /\ \A a \in DOMAIN worksheets :
             (\E j \in 1..Len(cfg.xform.sections) : cfg.xform.sections[j].name = a)
             => worksheets[a] \in Feed(spreadsheet)
       /\ CreatedData \subseteq Feed(spreadsheet)

\* C3 as amended: in tabular export, from the end of _create_worksheets on
\* and after export has returned, self.worksheets maps every section to a
\* worksheet this export created in its spreadsheet, no two sections share
\* one, and the worksheets created for data are exactly these; each is in
\* the spreadsheet and holds the header and the rows of its own section and
\* no other row.  The one exception after export is a section whose generated
\* title is 'Sheet1': the cleanup step has deleted its worksheet (C10), and
\* that is the only section worksheet missing.  In flattened export
\* self.worksheets is not written and the only data worksheet is 'raw'.
C3_TabularOneToOne ==
    /\ (~cfg.flatten_repeated_fields /\ pc \in {"headers", "data", "xlsform", "cleanup", "done"})
       => /\ OneToOne
          /\ \A n \in 1..Len(cfg.xform.sections) :
                LET name == cfg.xform.sections[n].name
                IN worksheets[name] \in Feed(spreadsheet)
                   <=> ~(pc = "done" /\ worksheet_titles[name] = SHEET1)
          /\ \A n \in LiveSections :
                LET section == cfg.xform.sections[n]
                    w == wss[worksheets[section.name]]
                IN /\ w.ss = spreadsheet
                   /\ w.title = worksheet_titles[section.name]
                   /\ InTabularData =>
                         /\ w.row_count = 1 + Len(RecordsOf(section, Processed))
                         /\ w.batches = w.row_count
                         /\ w.cells[<<1, 1>>] = StrV(section.elements[1].title)
    /\ cfg.flatten_repeated_fields
       => /\ Cardinality(CreatedData) <= 1
          /\ \A id \in CreatedData : wss[id].title = FLATTENED_SHEET_TITLE
          /\ \A a \in DOMAIN worksheets :
                worksheets[a] \in DOMAIN wss => wss[worksheets[a]].ss # spreadsheet

\* A tabular export of a form with repeats and two submissions has
\* returned, and every section's worksheet is in the spreadsheet.
C3_Witness ==
    /\ pc = "done"
    /\ ~cfg.flatten_repeated_fields
    /\ Len(cfg.xform.sections) = 3
    /\ Len(cfg.data) = 2
    /\ LiveSections = 1..Len(cfg.xform.sections)
    /\ CreatedData \subseteq Feed(spreadsheet)
    /\ \E n \in LiveSections :
          /\ cfg.xform.sections[n].name # cfg.xform.name
          /\ wss[worksheets[cfg.xform.sections[n].name]].row_count > 1

\* Whether text t is text p followed by decimal digits only.
IsSuffixed(p, t) ==
    /\ Len(t) >= Len(p)
    /\ SubSeq(t, 1, Len(p)) = p
    /\ \A j \in (Len(p) + 1)..Len(t) :
          t[j] \in {"0", "1", "2", "3", "4", "5", "6", "7", "8", "9"}

\* C2: no two worksheets that the export created in the spreadsheet (section
\* worksheets, 'raw', XLSForm copies) have the same title, and a section's
\* title is its name with every "/" replaced by "_", deduplicated.
C2_UniqueTitles ==
    /\ \A a, b \in Created \cap DOMAIN wss : a # b => wss[a].title # wss[b].title
    /\ (~cfg.flatten_repeated_fields /\ pc \in {"headers", "data", "xlsform", "cleanup", "done"})
       => \A j \in 1..Len(cfg.xform.sections) :
             LET name == cfg.xform.sections[j].name
             IN /\ name \in DOMAIN worksheet_titles
                /\ IsSuffixed(SlashToUnderscore(name), worksheet_titles[name])

\* The titles _create_worksheets gives to the first n sections when it
\* starts from an empty worksheet_titles.
RECURSIVE FreshTitles(_)
FreshTitles(n) ==
    IF n = 0
    THEN EmptyDict
    ELSE Put(FreshTitles(n - 1), cfg.xform.sections[n].name,
             SheetTitle(cfg.xform.sections[n].name, FreshTitles(n - 1)))

\* C5: an export through a new builder finds no entry of an earlier export
\* in worksheets and worksheet_titles, so the titles it gives depend on its
\* own sections only.
C5_RequestScoped ==
    /\ pc = "login" => worksheets = EmptyDict /\ worksheet_titles = EmptyDict
    /\ (~cfg.flatten_repeated_fields /\ pc \in {"headers", "data", "xlsform", "cleanup", "done"})
       => \A j \in 1..Len(cfg.xform.sections) :
             worksheet_titles[cfg.xform.sections[j].name]
             = FreshTitles(Len(cfg.xform.sections))[cfg.xform.sections[j].name]

\* C10: when export returns, the spreadsheet has no worksheet titled
\* 'Sheet1' left from its creation, and every worksheet the export created
\* is still in the spreadsheet.
C10_OnlyDefaultDeleted ==
    pc = "done" =>
       /\ \A id \in Feed(spreadsheet) \ Created : wss[id].title # SHEET1
       /\ Created \subseteq Feed(spreadsheet)

====
